---- MODULE Spec2Model ----
(***************************************************************************)
(* Generation & gallery state of the AI Creative Studio client.            *)
(*                                                                         *)
(* The repository holds two React components of the same pattern,          *)
(* ImageGenerator and TextGenerator.  They share no state: each has its    *)
(* own useState cells and its own localStorage key.  The variables model   *)
(* ONE generator component; the variable kind says which of the two it is, *)
(* so every property is checked for both.  The cells of the other          *)
(* generator are kept in peer; they change only in SpecBoth, where the two *)
(* generators are used in turn.                                            *)
(*                                                                         *)
(* A state is the component between two event handlers: React has          *)
(* re-rendered and run the effects of the previous handler.  Every action  *)
(* is one handler (or one continuation after the await) together with the  *)
(* save effect that the re-render runs.                                    *)
(*                                                                         *)
(* JavaScript strings are sequences of one-character strings.              *)
(***************************************************************************)
EXTENDS Integers, Sequences, FiniteSets, Bags, TLC

VARIABLES
    kind,          \* "image" (ImageGenerator) or "text" (TextGenerator)
    prompt,        \* useState('')            the prompt input box
    type,          \* useState('creative')    the style selector (text only)
    isGenerating,  \* useState(false)         the session flag
    items,         \* useState([])            images / texts, when the state holds an array
    itemsType,     \* the JavaScript type of the value held by images / texts
    imageLoading,  \* useState(new Set())     ids shown as loading (image only)
    imageErrors,   \* useState(new Set())     ids shown as failed  (image only)
    imgPending,    \* ids of rendered <img> elements that have fired neither load nor error
    storage,       \* localStorage, by key
    outstanding,   \* bag of generate calls suspended at the await of the gateway call
    now,           \* the reading of Date.now()
    toasts,        \* titles of the notifications raised by the last handler
    crashed,       \* an error was thrown while rendering: React has unmounted the tree
    download,      \* the download attribute of the last link clicked by an export
    peer           \* the state cells of the other generator, mounted beside this one

vars == <<kind, prompt, type, isGenerating, items, itemsType, imageLoading,
          imageErrors, imgPending, storage, outstanding, now, toasts, crashed,
          download, peer>>

----------------------------------------------------------------------------
(* Bounds of the model *)

MaxItems == 2    \* artifacts held by the collection plus calls suspended at the gateway
MaxNow == 2      \* last reading of the clock; the first is 1

Kinds == {"image", "text"}

Whitespace == {" "}

\* What the user may type or pick as a prompt: empty, blank, and a usable one
\* with leading whitespace (which is sent and stored untrimmed).
PromptInputs == {<<>>, <<" ">>, <<" ", "a">>}

\* The styles the selector offers; two of the five keep the model small.
Types == {"creative", "technical"}

\* Image artifacts and image requests carry no style.
NoType == "none"

\* What the gateway may return as data.imageUrl / data.text.
Payloads == {<<"x">>, <<"y">>}

----------------------------------------------------------------------------
(* Strings *)

\* String.prototype.trim: drop leading and trailing whitespace.
RECURSIVE TrimStart(_)
TrimStart(s) ==
    IF s = <<>> THEN <<>>
    ELSE IF Head(s) \in Whitespace THEN TrimStart(Tail(s)) ELSE s

RECURSIVE TrimEnd(_)
TrimEnd(s) ==
    IF s = <<>> THEN <<>>
    ELSE IF s[Len(s)] \in Whitespace THEN TrimEnd(SubSeq(s, 1, Len(s) - 1)) ELSE s

TrimNothing(s) == s

Trim(s) == TrimEnd(TrimStart(s))

DigitChars == <<"0", "1", "2", "3", "4", "5", "6", "7", "8", "9">>

\* Number.prototype.toString on a non-negative integer: its decimal digits.
RECURSIVE ToStr(_)
ToStr(n) ==
    IF n < 10 THEN <<DigitChars[n + 1]>>
    ELSE ToStr(n \div 10) \o <<DigitChars[(n % 10) + 1]>>

\* The ids Date.now().toString() can produce within the bounds.
IdSpace == {ToStr(n) : n \in 1..MaxNow}

\* The letters the model's prompts are written with, in both cases.
UpperCase == <<"A", "B", "C">>
LowerCase == <<"a", "b", "c">>

\* The characters the class [a-z0-9] matches under the i flag.
IsAlnum(c) ==
    \/ \E i \in 1..Len(UpperCase) : c = UpperCase[i]
    \/ \E i \in 1..Len(LowerCase) : c = LowerCase[i]
    \/ \E i \in 1..Len(DigitChars) : c = DigitChars[i]

\* The length slice(0, 50) cuts the prompt to.
SliceLen == 50

\* String.prototype.slice(0, n): the first n characters, or all of them.
Slice(s, n) == SubSeq(s, 1, IF n < Len(s) THEN n ELSE Len(s))

\* replace(/[^a-z0-9]/gi, '-'): every character outside the class becomes '-'.
ReplaceNonAlnum(s) == [i \in 1..Len(s) |-> IF IsAlnum(s[i]) THEN s[i] ELSE "-"]

ToLowerChar(c) ==
    IF \E i \in 1..Len(UpperCase) : c = UpperCase[i]
    THEN LowerCase[CHOOSE i \in 1..Len(UpperCase) : c = UpperCase[i]]
    ELSE c

\* String.prototype.toLowerCase.
ToLowerCase(s) == [i \in 1..Len(s) |-> ToLowerChar(s[i])]

\* sanitizedPrompt of downloadImage / exportText.
SanitizedPrompt(p) == ToLowerCase(ReplaceNonAlnum(Slice(p, SliceLen)))

----------------------------------------------------------------------------
(* localStorage and JSON *)

ImagesKey == "ai-studio-images"
TextsKey == "ai-studio-texts"
StoreKeys == {ImagesKey, TextsKey}

\* The key the component reads and writes.
Key == IF kind = "image" THEN ImagesKey ELSE TextsKey

\* The other generator and its key.
OtherKind == IF kind = "image" THEN "text" ELSE "image"
OtherKey == IF kind = "image" THEN TextsKey ELSE ImagesKey

\* getItem returns null for a key that is not there.
Absent == [present |-> FALSE, text |-> <<>>]
Stored(text) == [present |-> TRUE, text |-> text]

\* JSON text is a sequence of tokens; separators (commas, colons) are left out.
Punct(p) == [k |-> p, v |-> 0]
KeyTok(name) == [k |-> "key", v |-> name]
StrTok(s) == [k |-> "string", v |-> s]
NumTok(n) == [k |-> "number", v |-> n]

\* The name of the payload field: GeneratedImage.url / GeneratedText.content.
PayloadKey == IF kind = "image" THEN "url" ELSE "content"

\* JSON.stringify of one artifact: its fields in declaration order.
ItemTokens(a) ==
    <<Punct("{"), KeyTok("id"), StrTok(a.id), KeyTok(PayloadKey), StrTok(a.payload),
      KeyTok("prompt"), StrTok(a.prompt)>>
    \o (IF kind = "text" THEN <<KeyTok("type"), StrTok(a.type)>> ELSE <<>>)
    \o <<KeyTok("timestamp"), NumTok(a.timestamp), Punct("}")>>

RECURSIVE ElementTokens(_)
ElementTokens(s) ==
    IF s = <<>> THEN <<>> ELSE ItemTokens(Head(s)) \o ElementTokens(Tail(s))

\* JSON.stringify of the collection.
Stringify(s) == <<Punct("[")>> \o ElementTokens(s) \o <<Punct("]")>>

\* The position of the first token of kind k at or after position i (0: none).
RECURSIVE FindTok(_, _, _)
FindTok(toks, k, i) ==
    IF i > Len(toks) THEN 0
    ELSE IF toks[i].k = k THEN i ELSE FindTok(toks, k, i + 1)

\* Whether toks[i..j] is a run of key/value pairs.
RECURSIVE IsPairs(_, _, _)
IsPairs(toks, i, j) ==
    IF i > j THEN TRUE
    ELSE /\ i + 1 <= j
         /\ toks[i].k = "key"
         /\ toks[i + 1].k \in {"string", "number"}
         /\ IsPairs(toks, i + 2, j)

\* The value paired with key name in toks[i..j]; dflt when the key is not there.
RECURSIVE FieldOf(_, _, _, _, _)
FieldOf(toks, i, j, name, dflt) ==
    IF i > j THEN dflt
    ELSE IF toks[i].v = name THEN toks[i + 1].v
    ELSE FieldOf(toks, i + 2, j, name, dflt)

\* The artifact record of the object whose pairs are toks[i..j].
ItemOf(toks, i, j) ==
    [id        |-> FieldOf(toks, i, j, "id", <<>>),
     payload   |-> FieldOf(toks, i, j, PayloadKey, <<>>),
     prompt    |-> FieldOf(toks, i, j, "prompt", <<>>),
     type      |-> FieldOf(toks, i, j, "type", NoType),
     timestamp |-> FieldOf(toks, i, j, "timestamp", 0)]

ParseFail == [ok |-> FALSE, t |-> "none", v |-> <<>>]

\* The elements of an array: toks[i..] is a run of objects up to the closing bracket.
RECURSIVE ParseElements(_, _, _)
ParseElements(toks, i, acc) ==
    IF i = Len(toks) THEN [ok |-> TRUE, t |-> "array", v |-> acc]
    ELSE IF toks[i].k # "{" THEN ParseFail
    ELSE LET j == FindTok(toks, "}", i + 1) IN
         IF j = 0 \/ ~IsPairs(toks, i + 1, j - 1) THEN ParseFail
         ELSE ParseElements(toks, j + 1, Append(acc, ItemOf(toks, i + 1, j - 1)))

\* JSON.parse: ok = FALSE is a thrown SyntaxError; otherwise t is the type of the
\* value and v the elements when it is an array.
ParseJSON(toks) ==
    IF toks = <<>> THEN ParseFail
    ELSE IF Len(toks) = 1 THEN
        IF toks[1].k \in {"null", "number"}
        THEN [ok |-> TRUE, t |-> toks[1].k, v |-> <<>>]
        ELSE ParseFail
    ELSE IF toks[1].k = "[" THEN
        IF toks[Len(toks)].k = "]" THEN ParseElements(toks, 2, <<>>) ELSE ParseFail
    ELSE IF toks[1].k = "{" THEN
        IF toks[Len(toks)].k = "}" /\ IsPairs(toks, 2, Len(toks) - 1)
        THEN [ok |-> TRUE, t |-> "object", v |-> <<>>]
        ELSE ParseFail
    ELSE ParseFail

----------------------------------------------------------------------------
(* The component *)

ItemIds(s) == {s[i].id : i \in 1..Len(s)}

\* What the load effect leaves in the images / texts state: the parsed value when
\* the stored text is truthy and parses, the initial [] otherwise (absent key,
\* empty string, or a SyntaxError caught and logged).
LoadEffect(st) ==
    LET saved == st[Key] IN
    IF saved.present /\ saved.text # <<>> /\ ParseJSON(saved.text).ok
    THEN [t |-> ParseJSON(saved.text).t, v |-> ParseJSON(saved.text).v]
    ELSE [t |-> "array", v |-> <<>>]

\* Rendering reads images.length / texts.length: a TypeError on null.
RenderThrows(t) == t = "null"

\* The updaters spread or filter the previous value: a TypeError on a value that
\* is neither iterable nor has filter.
UpdaterThrows(t) == t # "array"

SaveEffectAlways(t, s, st) == [st EXCEPT ![Key] = Stored(Stringify(s))]

\* The save effect, run after every render in which images / texts changed:
\* writes the collection when its length is greater than 0 (on a number or an
\* object, length is undefined and the comparison is false).
SaveEffect(t, s, st) ==
    IF t = "array" /\ Len(s) > 0
    THEN [st EXCEPT ![Key] = Stored(Stringify(s))]
    ELSE st

\* A generate call suspended at the await: the prompt and type its closure holds,
\* which are also the body of the gateway request.
Request(p, t) == [prompt |-> p, type |-> t]

Requests == {Request(p, t) : p \in PromptInputs, t \in Types \cup {NoType}}

\* Room for one more call: every suspended call can still insert its artifact.
HasRoom == Len(items) + BagCardinality(outstanding) < MaxItems

\* newImage / newText: the id and timestamp from the clock, the payload from the
\* response, the prompt and type captured by the call's closure.
NewArtifact(req, p) ==
    [id |-> ToStr(now), payload |-> p, prompt |-> req.prompt, type |-> req.type,
     timestamp |-> now]

PutLast(a, s) == Append(s, a)

PrependReplacing(a, s) == IF s = <<>> THEN <<a>> ELSE <<a>> \o Tail(s)

InsertSecond(a, s) == IF s = <<>> THEN <<a>> ELSE <<Head(s), a>> \o Tail(s)

\* prev => [newItem, ...prev]
Prepend(a, s) == <<a>> \o s

\* prev => prev.filter(t => t.id !== id)
RECURSIVE FilterOut(_, _)
FilterOut(s, id) ==
    IF s = <<>> THEN <<>>
    ELSE IF Head(s).id # id THEN <<Head(s)>> \o FilterOut(Tail(s), id)
    ELSE FilterOut(Tail(s), id)

ToastGenerated == IF kind = "image" THEN "Image generated!" ELSE "Text generated!"

GenerateCallTwice(p, t) ==
    IF Trim(p) = <<>>
    THEN /\ toasts' = <<"Prompt required">>
         /\ UNCHANGED <<isGenerating, outstanding>>
    ELSE /\ HasRoom
         /\ isGenerating' = TRUE
         /\ outstanding' = outstanding (+) SetToBag({Request(p, t)})
                                       (+) SetToBag({Request(p, t)})
         /\ toasts' = <<>>

\* generateImage / generateText up to the await: p and t are the prompt and type
\* of the render whose closure is called.
GenerateCall(p, t) ==
    IF Trim(p) = <<>>
    THEN /\ toasts' = <<"Prompt required">>
         /\ UNCHANGED <<isGenerating, outstanding>>
    ELSE /\ HasRoom
         /\ isGenerating' = TRUE
         /\ outstanding' = outstanding (+) SetToBag({Request(p, t)})
         /\ toasts' = <<>>

\* Typing in the prompt box, or clicking a suggested prompt.
SetPrompt(p) ==
    /\ ~crashed
    /\ prompt' = p
    /\ toasts' = <<>>
    /\ UNCHANGED <<download, peer, kind, type, isGenerating, items, itemsType, imageLoading,
                   imageErrors, imgPending, storage, outstanding, now, crashed>>

\* Picking a writing style (TextGenerator only).
SetType(t) ==
    /\ ~crashed
    /\ kind = "text"
    /\ type' = t
    /\ toasts' = <<>>
    /\ UNCHANGED <<download, peer, kind, prompt, isGenerating, items, itemsType, imageLoading,
                   imageErrors, imgPending, storage, outstanding, now, crashed>>

\* The Generate button: disabled while generating or while the prompt is blank.
ClickGenerate ==
    /\ ~crashed
    /\ ~isGenerating
    /\ Trim(prompt) # <<>>
    /\ GenerateCall(prompt, type)
    /\ UNCHANGED <<download, peer, kind, prompt, type, items, itemsType, imageLoading,
                   imageErrors, imgPending, storage, now, crashed>>

\* Ctrl+Enter in the prompt box: calls generate whatever the flag holds.
CtrlEnter ==
    /\ ~crashed
    /\ GenerateCall(prompt, type)
    /\ UNCHANGED <<download, peer, kind, prompt, type, items, itemsType, imageLoading,
                   imageErrors, imgPending, storage, now, crashed>>

\* The Regenerate button of the i-th artifact (card or lightbox), disabled while
\* generating: sets the inputs from the artifact, then calls the generate closure
\* of the current render, which still holds the inputs as they were.
Regenerate(i) ==
    /\ ~crashed
    /\ ~isGenerating
    /\ itemsType = "array"
    /\ i \in 1..Len(items)
    /\ prompt' = items[i].prompt
    /\ type' = IF kind = "text" THEN items[i].type ELSE type
    /\ GenerateCall(prompt, type)
    /\ UNCHANGED <<download, peer, kind, items, itemsType, imageLoading, imageErrors, imgPending,
                   storage, now, crashed>>

\* The continuation of generate after the await, the gateway answering with a
\* usable payload: prepend the new artifact, mark it loading (image), notify,
\* clear the prompt box, clear the flag (finally); the re-render runs the save
\* effect.  On a state value that is not an array the updater throws while
\* React renders, and the tree is unmounted.
ResolveOk(req, p) ==
    /\ ~crashed
    /\ BagIn(req, outstanding)
    /\ p \in Payloads
    /\ outstanding' = outstanding (-) SetToBag({req})
    /\ toasts' = <<ToastGenerated>>
    /\ IF UpdaterThrows(itemsType)
       THEN /\ crashed' = TRUE
            /\ UNCHANGED <<prompt, isGenerating, items, imageLoading, imgPending, storage>>
       ELSE LET a == NewArtifact(req, p) IN
            /\ items' = Prepend(a, items)
            /\ imageLoading' = IF kind = "image" THEN imageLoading \cup {a.id}
                               ELSE imageLoading
            /\ imgPending' = IF kind = "image" /\ a.id \notin imageErrors
                             THEN imgPending \cup {a.id} ELSE imgPending
            /\ prompt' = <<>>
            /\ isGenerating' = FALSE
            /\ storage' = SaveEffect(itemsType, items', storage)
            /\ crashed' = FALSE
    /\ UNCHANGED <<download, peer, kind, type, itemsType, imageErrors, now>>

ResolveEmptyKeepFlag(req) ==
    /\ ~crashed
    /\ BagIn(req, outstanding)
    /\ outstanding' = outstanding (-) SetToBag({req})
    /\ toasts' = <<>>
    /\ UNCHANGED <<download, peer, kind, prompt, type, isGenerating, items, itemsType, imageLoading,
                   imageErrors, imgPending, storage, now, crashed>>

\* The continuation when the gateway answers without error and without a usable
\* payload (no data, or no imageUrl / text in it): only the finally block runs.
ResolveEmpty(req) ==
    /\ ~crashed
    /\ BagIn(req, outstanding)
    /\ outstanding' = outstanding (-) SetToBag({req})
    /\ toasts' = <<>>
    /\ isGenerating' = FALSE
    /\ UNCHANGED <<download, peer, kind, prompt, type, items, itemsType, imageLoading,
                   imageErrors, imgPending, storage, now, crashed>>

ResolveErrorClearsPrompt(req) ==
    /\ ~crashed
    /\ BagIn(req, outstanding)
    /\ outstanding' = outstanding (-) SetToBag({req})
    /\ toasts' = <<"Generation failed">>
    /\ isGenerating' = FALSE
    /\ prompt' = <<>>
    /\ UNCHANGED <<download, peer, kind, type, items, itemsType, imageLoading,
                   imageErrors, imgPending, storage, now, crashed>>

\* The continuation when the gateway answers with an error, or the call throws:
\* the catch block notifies, the finally block clears the flag.
ResolveError(req) ==
    /\ ~crashed
    /\ BagIn(req, outstanding)
    /\ outstanding' = outstanding (-) SetToBag({req})
    /\ toasts' = <<"Generation failed">>
    /\ isGenerating' = FALSE
    /\ UNCHANGED <<download, peer, kind, prompt, type, items, itemsType, imageLoading,
                   imageErrors, imgPending, storage, now, crashed>>

\* deleteText(id), TextGenerator only; the re-render runs the save effect.
DeleteText(id) ==
    /\ ~crashed
    /\ kind = "text"
    /\ itemsType = "array"
    /\ items' = FilterOut(items, id)
    /\ toasts' = <<"Deleted">>
    /\ storage' = SaveEffect(itemsType, items', storage)
    /\ UNCHANGED <<download, peer, kind, prompt, type, isGenerating, itemsType, imageLoading,
                   imageErrors, imgPending, outstanding, now, crashed>>

ClearAllKeys ==
    /\ ~crashed
    /\ itemsType = "array"
    /\ Len(items) > 0
    /\ items' = <<>>
    /\ storage' = SaveEffect(itemsType, items', [k \in StoreKeys |-> Absent])
    /\ imgPending' = {}
    /\ toasts' = <<"Cleared">>
    /\ UNCHANGED <<download, peer, kind, prompt, type, isGenerating, itemsType,
                   imageLoading, imageErrors, outstanding, now, crashed>>

\* Clear All, confirmed; the button is rendered while the collection is not
\* empty.  The re-render runs the save effect on the empty collection.
ClearAll ==
    /\ ~crashed
    /\ itemsType = "array"
    /\ Len(items) > 0
    /\ items' = <<>>
    /\ storage' = SaveEffect(itemsType, items', [storage EXCEPT ![Key] = Absent])
    /\ imgPending' = {}
    /\ toasts' = <<"Cleared">>
    /\ UNCHANGED <<download, peer, kind, prompt, type, isGenerating, itemsType, imageLoading,
                   imageErrors, outstanding, now, crashed>>

\* onLoad of the <img> of an image: handleImageLoad.
ImageLoaded(id) ==
    /\ ~crashed
    /\ kind = "image"
    /\ id \in imgPending
    /\ imgPending' = imgPending \ {id}
    /\ imageLoading' = imageLoading \ {id}
    /\ toasts' = <<>>
    /\ UNCHANGED <<download, peer, kind, prompt, type, isGenerating, items, itemsType, imageErrors,
                   storage, outstanding, now, crashed>>

ImageErroredResetsLoading(id) ==
    /\ ~crashed
    /\ kind = "image"
    /\ id \in imgPending
    /\ imgPending' = imgPending \ {id}
    /\ imageLoading' = {}
    /\ imageErrors' = imageErrors \cup {id}
    /\ toasts' = <<"Image failed to load">>
    /\ UNCHANGED <<download, peer, kind, prompt, type, isGenerating, items, itemsType, storage,
                   outstanding, now, crashed>>

\* onError of the <img> of an image: handleImageError.  The <img> is replaced
\* by the failure panel.
ImageErrored(id) ==
    /\ ~crashed
    /\ kind = "image"
    /\ id \in imgPending
    /\ imgPending' = imgPending \ {id}
    /\ imageLoading' = imageLoading \ {id}
    /\ imageErrors' = imageErrors \cup {id}
    /\ toasts' = <<"Image failed to load">>
    /\ UNCHANGED <<download, peer, kind, prompt, type, isGenerating, items, itemsType, storage,
                   outstanding, now, crashed>>

\* No link has been clicked.
NoDownload == [prefix |-> "", segment |-> <<>>, stamp |-> <<>>, ext |-> ""]

\* The template literal `ai-generated-${sanitizedPrompt}-${Date.now()}.png` (.txt
\* for a text), by its parts.
FileName(p) ==
    [prefix |-> "ai-generated-", segment |-> SanitizedPrompt(p), stamp |-> ToStr(now),
     ext |-> IF kind = "image" THEN ".png" ELSE ".txt"]

\* exportText of the i-th text, or downloadImage of the i-th image when the fetch
\* of its url succeeds: a link named after the artifact's prompt is clicked.
Export(i) ==
    /\ ~crashed
    /\ itemsType = "array"
    /\ i \in 1..Len(items)
    /\ download' = FileName(items[i].prompt)
    /\ toasts' = <<IF kind = "image" THEN "Downloaded!" ELSE "Exported!">>
    /\ UNCHANGED <<peer, kind, prompt, type, isGenerating, items, itemsType, imageLoading,
                   imageErrors, imgPending, storage, outstanding, now, crashed>>

\* downloadImage of the i-th image when the fetch of its url fails: the catch
\* block notifies and no link is made.
DownloadFailed(i) ==
    /\ ~crashed
    /\ kind = "image"
    /\ itemsType = "array"
    /\ i \in 1..Len(items)
    /\ toasts' = <<"Download failed">>
    /\ UNCHANGED <<download, peer, kind, prompt, type, isGenerating, items, itemsType,
                   imageLoading, imageErrors, imgPending, storage, outstanding, now,
                   crashed>>

\* The clock advances.
Tick ==
    /\ now < MaxNow
    /\ now' = now + 1
    /\ UNCHANGED <<download, peer, kind, prompt, type, isGenerating, items, itemsType, imageLoading,
                   imageErrors, imgPending, storage, outstanding, toasts, crashed>>

\* The state cells of this generator.
Cells ==
    [prompt |-> prompt, type |-> type, isGenerating |-> isGenerating, items |-> items,
     itemsType |-> itemsType, imageLoading |-> imageLoading, imageErrors |-> imageErrors,
     imgPending |-> imgPending, outstanding |-> outstanding]

\* The state cells of generator k when mounted over no stored entry.
FreshCells(k) ==
    [prompt |-> <<>>, type |-> IF k = "text" THEN "creative" ELSE NoType,
     isGenerating |-> FALSE, items |-> <<>>, itemsType |-> "array", imageLoading |-> {},
     imageErrors |-> {}, imgPending |-> {}, outstanding |-> EmptyBag]

\* The user turns to the other generator: from here on the handlers that run
\* are its handlers, on its cells and its key; the cells of the generator left
\* behind are kept aside as they are, its suspended calls included.
Switch ==
    /\ ~crashed
    /\ kind' = OtherKind
    /\ prompt' = peer.prompt
    /\ type' = peer.type
    /\ isGenerating' = peer.isGenerating
    /\ items' = peer.items
    /\ itemsType' = peer.itemsType
    /\ imageLoading' = peer.imageLoading
    /\ imageErrors' = peer.imageErrors
    /\ imgPending' = peer.imgPending
    /\ outstanding' = peer.outstanding
    /\ peer' = Cells
    /\ UNCHANGED <<download, storage, now, toasts, crashed>>

\* A session restart (page reload): the component is mounted afresh, the load
\* effect reads the store, the save effect follows; calls suspended at the
\* gateway are gone with the page.  The other generator is mounted afresh too:
\* the action covers the sessions in which it has no stored entry.
Reload ==
    /\ ~storage[OtherKey].present
    /\ peer' = FreshCells(OtherKind)
    /\ prompt' = <<>>
    /\ type' = IF kind = "text" THEN "creative" ELSE NoType
    /\ isGenerating' = FALSE
    /\ itemsType' = LoadEffect(storage).t
    /\ items' = LoadEffect(storage).v
    /\ crashed' = RenderThrows(itemsType')
    /\ imageLoading' = {}
    /\ imageErrors' = {}
    /\ imgPending' = IF kind = "image" /\ ~crashed' THEN ItemIds(items') ELSE {}
    /\ storage' = IF crashed' THEN storage ELSE SaveEffect(itemsType', items', storage)
    /\ outstanding' = EmptyBag
    /\ toasts' = <<>>
    /\ UNCHANGED <<download, kind, now>>

----------------------------------------------------------------------------
(* Specifications *)

\* The component as first mounted over the store st, which holds no entry of
\* the other generator.
Mounted(st) ==
    /\ prompt = <<>>
    /\ type = IF kind = "text" THEN "creative" ELSE NoType
    /\ isGenerating = FALSE
    /\ itemsType = LoadEffect(st).t
    /\ items = LoadEffect(st).v
    /\ crashed = RenderThrows(itemsType)
    /\ imageLoading = {}
    /\ imageErrors = {}
    /\ imgPending = IF kind = "image" /\ ~crashed THEN ItemIds(items) ELSE {}
    /\ storage = IF crashed THEN st ELSE SaveEffect(itemsType, items, st)
    /\ outstanding = EmptyBag
    /\ now = 1
    /\ toasts = <<>>
    /\ download = NoDownload
    /\ ~st[OtherKey].present
    /\ peer = FreshCells(OtherKind)

\* A first session: nothing stored.
Init ==
    /\ kind \in Kinds
    /\ Mounted([k \in StoreKeys |-> Absent])

Next ==
    \/ \E p \in PromptInputs : SetPrompt(p)
    \/ \E t \in Types : SetType(t)
    \/ ClickGenerate
    \/ CtrlEnter
    \/ \E i \in 1..MaxItems : Regenerate(i)
    \/ \E req \in Requests, p \in Payloads : ResolveOk(req, p)
    \/ \E req \in Requests : ResolveEmpty(req)
    \/ \E req \in Requests : ResolveError(req)
    \/ \E id \in IdSpace : DeleteText(id)
    \/ ClearAll
    \/ \E id \in IdSpace : ImageLoaded(id)
    \/ \E id \in IdSpace : ImageErrored(id)
    \/ Tick
    \/ Reload

Spec == Init /\ [][Next]_vars

\* Any continuation of a suspended generate call.
ResolveSome ==
    \E req \in Requests :
        \/ ResolveEmpty(req)
        \/ ResolveError(req)
        \/ \E p \in Payloads : ResolveOk(req, p)

\* Every gateway call eventually resolves.
FairSpec == Spec /\ WF_vars(ResolveSome)

\* Stored texts that are not a serialized list of artifacts: the empty string,
\* truncated JSON, null, a number, an object.
CorruptTexts ==
    {<<>>,
     <<Punct("[")>>,
     <<Punct("["), Punct("{"), KeyTok("id")>>,
     <<Punct("null")>>,
     <<NumTok(5)>>,
     <<Punct("{"), Punct("}")>>}

\* A session that starts over a corrupt store.
InitCorrupt ==
    /\ kind \in Kinds
    /\ \E c \in CorruptTexts :
           Mounted([k \in StoreKeys |-> IF k = Key THEN Stored(c) ELSE Absent])

SpecCorrupt == InitCorrupt /\ [][Next]_vars

\* Exporting changes none of the state cells of the component, so it is
\* specified on its own, over a store that holds one artifact of an earlier
\* session whose prompt is any of ExportPrompts.
MaxTail == 3     \* the prompts are all strings of at most this length ...
PadLen == 48     \* ... alone, or after this many letters
ExportAlphabet == {"A", "b", "7", ":", " "}
Tails == UNION {[1..n -> ExportAlphabet] : n \in 0..MaxTail}
Pad == [i \in 1..PadLen |-> "a"]
Scenario == <<"A", ":", " ", "B", "?", " ", "C", "!">>
ExportPrompts == Tails \cup {Pad \o t : t \in Tails} \cup {Scenario}

SavedArtifact(p) ==
    [id |-> ToStr(1), payload |-> <<"x">>, prompt |-> p,
     type |-> IF kind = "text" THEN "creative" ELSE NoType, timestamp |-> 1]

InitExport ==
    /\ kind \in Kinds
    /\ \E p \in ExportPrompts :
           Mounted([k \in StoreKeys |->
                       IF k = Key THEN Stored(Stringify(<<SavedArtifact(p)>>)) ELSE Absent])

NextExport ==
    \/ \E i \in 1..MaxItems : Export(i)
    \/ \E i \in 1..MaxItems : DownloadFailed(i)
    \/ Tick

SpecExport == InitExport /\ [][NextExport]_vars

\* The two generators side by side, each used in turn.  The clock stands still
\* and each input is drawn from one value, which keeps the product of the two
\* state spaces small.
NextBoth ==
    \/ \E p \in {<<" ", "a">>} : SetPrompt(p)
    \/ ClickGenerate
    \/ CtrlEnter
    \/ \E i \in 1..MaxItems : Regenerate(i)
    \/ \E req \in Requests, p \in {<<"x">>} : ResolveOk(req, p)
    \/ \E req \in Requests : ResolveError(req)
    \/ \E id \in IdSpace : DeleteText(id)
    \/ ClearAll
    \/ \E id \in IdSpace : ImageLoaded(id)
    \/ \E id \in IdSpace : ImageErrored(id)
    \/ Switch

SpecBoth == Init /\ [][NextBoth]_vars

----------------------------------------------------------------------------
(* Properties *)

Calls == BagCardinality(outstanding)

IsBlank(p) == \A i \in 1..Len(p) : p[i] \in Whitespace

GenerateTriggered == ClickGenerate \/ CtrlEnter \/ \E i \in 1..MaxItems : Regenerate(i)

\* C1: at most one generation request is outstanding at the gateway at any
\* time; a trigger that arrives while one is outstanding starts no second one.
C1_SingleFlight == Calls <= 1

\* C2: the flag is cleared on every exit path of generate: every step that
\* resumes a suspended call leaves the flag false, the flag is false whenever
\* no call is outstanding, and (every call resolving eventually) a set flag is
\* eventually cleared.
C2_FlagCleared ==
    /\ [](Calls = 0 => ~isGenerating)
    /\ [][Calls' < Calls => ~isGenerating']_vars
    /\ (isGenerating ~> ~isGenerating)

\* C2 witness: a call has thrown or failed, nothing is outstanding, the flag is clear.
C2_Witness == toasts = <<"Generation failed">> /\ Calls = 0 /\ ~isGenerating

\* C3: generate on a prompt that is blank after trimming issues no gateway
\* call, raises the "Prompt required" notification, and leaves the collection,
\* the persisted entry and the flag as they were.
C3_BlankPromptRejected ==
    [][(GenerateTriggered /\ IsBlank(prompt)) =>
          /\ toasts' = <<"Prompt required">>
          /\ outstanding' = outstanding
          /\ items' = items
          /\ storage' = storage
          /\ isGenerating' = isGenerating]_vars

\* C3 witness: a whitespace-only prompt was rejected while a call was outstanding.
C3_Witness ==
    /\ toasts = <<"Prompt required">>
    /\ prompt = <<" ">>
    /\ isGenerating
    /\ Calls = 1

\* C4: after a successful generate the first element of the collection is a
\* new artifact with the submitted prompt and the gateway's payload, in front
\* of the collection as it was, which is longer by exactly 1.
C4_SuccessPrepends ==
    [][\A req \in Requests, p \in Payloads :
          ResolveOk(req, p) =>
              /\ Len(items') = Len(items) + 1
              /\ items'[1].prompt = req.prompt
              /\ items'[1].payload = p
              /\ Tail(items') = items]_vars

\* C4 witness: a second artifact was generated in front of a first one.
C4_Witness ==
    /\ toasts = <<ToastGenerated>>
    /\ Len(items) = 2
    /\ items[1].payload # items[2].payload

\* C5: regenerate issues a gateway call with the artifact's stored prompt (and
\* type), whatever the prompt box and the style selector hold.
C5_RegenerateUsesArtifact ==
    [][\A i \in 1..MaxItems :
          Regenerate(i) =>
              outstanding' =
                  outstanding (+) SetToBag({Request(items[i].prompt, items[i].type)})]_vars

\* C6: regeneration is additive: triggering it leaves the collection as it
\* was, a failed or empty answer leaves it as it was, and a successful answer
\* adds exactly one artifact in front of the unchanged collection.
C6_RegenerateAdditive ==
    [][/\ GenerateTriggered => items' = items
       /\ (\E req \in Requests : ResolveEmpty(req) \/ ResolveError(req)) => items' = items
       /\ (\E req \in Requests, p \in Payloads : ResolveOk(req, p)) =>
              (Len(items') = Len(items) + 1 /\ Tail(items') = items)]_vars

\* C6 witness: a regenerate was rejected by validation (the box was blank and
\* now holds the artifact's prompt) with the artifact still in the collection.
C6_Witness ==
    /\ toasts = <<"Prompt required">>
    /\ ~IsBlank(prompt)
    /\ \E i \in 1..Len(items) : items[i].prompt = prompt

\* C7: deleteText(id) leaves no artifact with that id and shortens the
\* collection by exactly 1 when the id was present, by 0 when it was not.
C7_DeleteRemovesOne ==
    [][\A id \in IdSpace :
          DeleteText(id) =>
              /\ id \notin ItemIds(items')
              /\ Len(items') = Len(items) - (IF id \in ItemIds(items) THEN 1 ELSE 0)]_vars

\* C8: Clear All leaves an empty collection and no persisted entry, the save
\* effect that follows included.
C8_ClearRemovesEntry ==
    [][ClearAll => (items' = <<>> /\ ~storage'[Key].present)]_vars

\* C8 witness: the collection was cleared and the entry is gone.
C8_Witness == toasts = <<"Cleared">> /\ items = <<>> /\ ~storage[Key].present

\* C9: after every mutation and its save effect, loading from the store gives
\* the collection held in memory.
C9_StoreMatchesCollection ==
    /\ LoadEffect(storage).t = "array"
    /\ LoadEffect(storage).v = items

\* C10: over a corrupt store no error is ever thrown, neither by the load at
\* session start nor by any later operation on the collection.
C10_CorruptStoreHarmless == ~crashed

\* C11: a failed gateway response (an error result or a thrown failure) leaves
\* the collection, the persisted entry and the prompt box as they were, and
\* leaves the flag false.
C11_FailureLeavesState ==
    [][\A req \in Requests :
          ResolveError(req) =>
              /\ items' = items
              /\ storage' = storage
              /\ prompt' = prompt
              /\ ~isGenerating']_vars

\* C11 witness: a call has failed over a stored collection, the prompt is still
\* in the box and the flag is clear.
C11_Witness ==
    /\ toasts = <<"Generation failed">>
    /\ ~IsBlank(prompt)
    /\ Len(items) > 0
    /\ storage[Key] = Stored(Stringify(items))
    /\ ~isGenerating

\* C12: every continuation of a generate call that inserts no artifact, the
\* gateway having failed or answered without a usable payload, raises the
\* "Generation failed" notification exactly once; a continuation that inserts
\* an artifact raises no failure notification.
C12_FailureNotifiedOnce ==
    [][/\ (\E req \in Requests : ResolveEmpty(req) \/ ResolveError(req)) =>
              toasts' = <<"Generation failed">>
       /\ (\E req \in Requests, p \in Payloads : ResolveOk(req, p)) =>
              toasts' = <<ToastGenerated>>]_vars

\* C13: a generate invocation on a prompt that is not blank issues exactly one
\* gateway call, and nothing else ever issues one: no continuation of a call,
\* failed or successful, and no other handler adds a call.
C13_OneCallPerInvocation ==
    [][/\ (GenerateTriggered /\ ~IsBlank(prompt)) => Calls' = Calls + 1
       /\ (\E req \in Requests :
              \/ ResolveError(req)
              \/ ResolveEmpty(req)
              \/ \E p \in Payloads : ResolveOk(req, p)) => Calls' = Calls - 1
       /\ Calls' > Calls => GenerateTriggered]_vars

\* C13 witness: one invocation on a usable prompt over an empty collection:
\* exactly one call is suspended, carrying the prompt of the box.
C13_Witness ==
    /\ Calls = 1
    /\ isGenerating
    /\ toasts = <<>>
    /\ ~IsBlank(prompt)
    /\ BagIn(Request(prompt, type), outstanding)
    /\ Len(items) = 0

\* The segment the sanitization rule derives from what is left of a prompt cut
\* to 50 characters: the alphanumeric characters in lower case, each run of other
\* characters between two of them replaced by one separator.
RECURSIVE RuleSegment(_, _, _)
RuleSegment(s, acc, gap) ==
    IF s = <<>> THEN acc
    ELSE IF IsAlnum(Head(s))
    THEN RuleSegment(Tail(s),
                     acc \o (IF gap /\ acc # <<>> THEN <<"-">> ELSE <<>>)
                         \o <<ToLowerChar(Head(s))>>,
                     FALSE)
    ELSE RuleSegment(Tail(s), acc, TRUE)

\* C14: the filename segment of an export is the prompt cut to its first 50
\* characters, its alphanumeric characters kept in lower case and everything
\* else replaced by a single separator; "A: B? C!" gives "a-b-c".
C14_ExportSegment ==
    [][\A i \in 1..MaxItems :
          Export(i) =>
              /\ download'.segment = RuleSegment(Slice(items[i].prompt, SliceLen), <<>>, FALSE)
              /\ items[i].prompt = Scenario =>
                     download'.segment = <<"a", "-", "b", "-", "c">>]_vars

\* C15: no two artifacts of the collection have the same id, in any reachable
\* state.
C15_UniqueIds ==
    \A i, j \in 1..Len(items) : i # j => items[i].id # items[j].id

\* C16: no image id is both in the loading set and in the errored set.
C16_LifecycleSetsDisjoint == imageLoading \cap imageErrors = {}

\* C17: within a session an image id only moves from loading to ready (in
\* neither set) or from loading to errored: a generated image's id enters the
\* loading set, and no other id does; onLoad takes the id out of the loading
\* set, onError moves it to the errored set; an errored id stays errored and a
\* ready id of the collection stays ready.
C17_LifecycleMoves ==
    [][(kind = "image" /\ ~Reload) =>
          /\ \A id \in IdSpace :
                /\ id \in imageErrors => (id \in imageErrors' /\ id \notin imageLoading')
                /\ (id \in ItemIds(items) /\ id \notin imageLoading \cup imageErrors) =>
                       id \notin imageLoading' \cup imageErrors'
                /\ ImageLoaded(id) => id \notin imageLoading' \cup imageErrors'
                /\ ImageErrored(id) => (id \notin imageLoading' /\ id \in imageErrors')
          /\ (\E req \in Requests, p \in Payloads : ResolveOk(req, p)) =>
                 (items'[1].id \in imageLoading'
                    /\ imageLoading' \ imageLoading \subseteq {items'[1].id})]_vars

\* C18: the failure of one image's content to load changes the lifecycle state
\* of that id only: the collection, the persisted entry, the flag and the
\* membership of every other id in the loading and errored sets stay as they
\* were.
C18_ContentErrorFrame ==
    [][\A id \in IdSpace :
          ImageErrored(id) =>
              /\ items' = items
              /\ storage' = storage
              /\ isGenerating' = isGenerating
              /\ imageLoading' \ {id} = imageLoading \ {id}
              /\ imageErrors' \ {id} = imageErrors \ {id}]_vars

\* C18 witness: one image of two has failed to load while the other is still
\* loading.
C18_Witness ==
    /\ toasts = <<"Image failed to load">>
    /\ imageErrors # {}
    /\ imageLoading \ imageErrors # {}
    /\ Len(items) = 2

NewestFirst ==
    \A i, j \in 1..Len(items) : i < j => items[i].timestamp >= items[j].timestamp

\* C19: the collection is always ordered newest first by creation time; a
\* successful answer, of whichever suspended call, puts its artifact, stamped
\* with the current time, at index 0 in front of the collection as it was;
\* a removal keeps the other artifacts as they were and in their order; no
\* other handler changes the collection.
C19_NewestFirst ==
    /\ NewestFirst
    /\ [][/\ NewestFirst'
          /\ (\E req \in Requests, p \in Payloads : ResolveOk(req, p)) =>
                (items'[1].timestamp = now /\ Tail(items') = items)
          /\ \A id \in IdSpace :
                DeleteText(id) => items' = SelectSeq(items, LAMBDA a : a.id # id)
          /\ items' # items =>
                \/ \E req \in Requests, p \in Payloads : ResolveOk(req, p)
                \/ \E id \in IdSpace : DeleteText(id)
                \/ ClearAll
                \/ Reload]_vars

\* C19 witness: two texts of different styles, generated at different times,
\* the later one first.
C19_Witness ==
    /\ Len(items) = 2
    /\ items[1].timestamp > items[2].timestamp
    /\ items[1].type # items[2].type
    /\ items[1].id # items[2].id

\* C20: the two generators are independent: a handler or continuation of one
\* leaves the cells of the other (its collection, flag, lifecycle sets,
\* suspended calls) and the other's persisted entry as they were, and the
\* Generate button of one is enabled whenever its own flag is clear and its
\* prompt usable, whatever call of the other is suspended.
C20_KindsIndependent ==
    /\ []((/\ peer.isGenerating
           /\ BagCardinality(peer.outstanding) > 0
           /\ ~crashed
           /\ ~isGenerating
           /\ ~IsBlank(prompt)
           /\ HasRoom) => ENABLED ClickGenerate)
    /\ [][~Switch => (peer' = peer /\ storage'[OtherKey] = storage[OtherKey])]_vars

\* C20 witness: each generator holds a stored artifact and has a call
\* suspended at the gateway, the second issued while the first was suspended.
C20_Witness ==
    /\ peer.isGenerating
    /\ BagCardinality(peer.outstanding) = 1
    /\ Len(peer.items) = 1
    /\ storage[OtherKey].present
    /\ isGenerating
    /\ Calls = 1
    /\ Len(items) = 1
    /\ storage[Key].present

====
